---- MODULE Spec2Model ----
(***************************************************************************)
(* Model of drivers/tapdisk-metrics.c (blktap): the per-process metrics    *)
(* directory, the per-device shared-memory statistics handles and the      *)
(* submit / merge / complete instrumentation hooks.                        *)
(*                                                                         *)
(* The filesystem is a function from paths (sequences of name components)  *)
(* to nodes.  A region file carries the number of the inode that holds its *)
(* page; the page of an inode is the record of the ten counters.  A        *)
(* mapping (what shm.mem and stats point to) is a number into `maps`.      *)
(***************************************************************************)
EXTENDS Integers, Sequences, FiniteSets, TLC

(* ------------------------------ bounds -------------------------------- *)
\* deepest chain of nested stale subdirectories placed under the root
MaxDepth == 2
\* system-call / allocation faults injected into one recursive purge
MaxFaults == 1
\* shared-memory mappings created over one run
MaxRegions == 2
\* largest value of the tv_usec field drawn for a timestamp
MaxUsec == 1
\* width, in bits, of a counter of the stats page (scaled down)
CounterBits == 6

(* ----------------------- constants of the program ---------------------- *)
PAGE_SIZE == 4096
DEFAULT_SECTOR_SIZE == 512
ENOMEM == 12
ENOENT == 2
EACCES == 13
NULL == 0
\* the value getpid() returns for this process
PID == 4242

CounterMod == 2 ^ CounterBits

Handles == {"h1", "h2"}
Ops == {"op1", "op2"}
Opcodes == {"IO_CMD_PREAD", "IO_CMD_PWRITE", "IO_CMD_FSYNC"}
ByteCounts == {PAGE_SIZE, 1000}
Usecs == 0 .. MaxUsec

(* ------------------------------ naming --------------------------------- *)
\* TAPDISK_METRICS_PATHF applied to the pid: the root directory
MetricsPath(pid) == << <<"td3", pid>> >>
\* TAPDISK_METRICS_VDI_PATHF applied to (root, minor)
VdiPath(root, minor) == Append(root, <<"vdi", minor>>)
\* TAPDISK_METRICS_VBD_PATHF applied to (root, domain, id)
VbdPath(root, domain, id) == Append(root, <<"vbd", domain, id>>)

RootPath == MetricsPath(PID)
\* a directory outside the root, the target of the stale symbolic link
ExtPath == << <<"ext">> >>
NoPath == << >>

Minors == {7}
VbdIds == {<<1, 0>>}

\* the order in which readdir() may return the names of one directory
DirNames == << <<"f">>, <<"fifo">>, <<"lnk">>, <<"sub">>, <<"vbd", 1, 0>>, <<"vdi", 7>> >>

(* ---------------------------- filesystem ------------------------------- *)
Node(k, i) == [kind |-> k, ino |-> i, size |-> 0]
\* a regular file of `sz` bytes whose page is held by inode i
RegionNode(i, sz) == [kind |-> "reg", ino |-> i, size |-> sz]
DirNode == Node("dir", 0)
RegNode == Node("reg", 0)

Exists(f, p) == p \in DOMAIN f
IsDir(f, p) == Exists(f, p) /\ f[p].kind = "dir"
Parent(p) == SubSeq(p, 1, Len(p) - 1)
Children(f, d) ==
    {p \in DOMAIN f : Len(p) = Len(d) + 1 /\ SubSeq(p, 1, Len(d)) = d}
Under(f, d) ==
    {p \in DOMAIN f : Len(p) > Len(d) /\ SubSeq(p, 1, Len(d)) = d}
Remove(f, p) == [q \in (DOMAIN f) \ {p} |-> f[q]]
Put(f, p, n) == [q \in (DOMAIN f) \cup {p} |-> IF q = p THEN n ELSE f[q]]

\* opendir() and stat() follow a symbolic link to the directory it names
Resolve(f, p) == IF Exists(f, p) /\ f[p].kind = "lnk" THEN ExtPath ELSE p

Reverse(s) == [i \in 1 .. Len(s) |-> s[Len(s) + 1 - i]]
\* the names readdir() returns for directory d, in the order of this call
ReadDir(f, d, rev) ==
    LET names == SelectSeq(DirNames, LAMBDA n : Exists(f, Append(d, n)))
    IN  IF rev THEN Reverse(names) ELSE names

\* the entries a purge of the root can come to: those below the root and,
\* when one of them is the link, those of the directory it names
Reachable(f) ==
    Under(f, RootPath) \cup
    (IF \E p \in Under(f, RootPath) : f[p].kind = "lnk" THEN Under(f, ExtPath) ELSE {})
\* the faults one purge can meet: asprintf failing for an entry (nomem),
\* unlink / rmdir failing for an entry or for the root (eperm), and the
\* readdir order (which matters only when the loop is cut short)
FaultSets(S) == {s \in SUBSET S : Cardinality(s) <= MaxFaults}
Plans(f) ==
    {pl \in [nomem : FaultSets(Reachable(f)),
             eperm : FaultSets(Reachable(f) \cup ({RootPath} \cap DOMAIN f)),
             rev : BOOLEAN] :
        /\ Cardinality(pl.nomem \cup pl.eperm) <= MaxFaults
        /\ pl.rev => pl.nomem # {}}
NoFault(plan) == plan.nomem = {} /\ plan.eperm = {}

unlink(f, p, plan) ==
    IF Exists(f, p) /\ f[p].kind # "dir" /\ p \notin plan.eperm
    THEN Remove(f, p) ELSE f

\* rmdir() returns 0: p is an empty directory and the call does not fail
rmdir_ok(f, p, plan) == IsDir(f, p) /\ Children(f, p) = {} /\ p \notin plan.eperm
rmdir(f, p, plan) == IF rmdir_ok(f, p, plan) THEN Remove(f, p) ELSE f

\* a test that takes every entry for a regular file
StModeAlwaysIFREG(f, p) == TRUE

\* st_mode & S_IFREG as the code tests it, after stat() followed the link
StModeHasIFREG(f, p) == f[Resolve(f, p)].kind = "reg"

RECURSIVE empty_folder(_, _, _)
RECURSIVE PurgeEntries(_, _, _, _)
\* the readdir loop of empty_folder over the entries `names` of directory d
PurgeEntries(f, d, names, plan) ==
    IF names = << >> THEN f
    ELSE LET file == Append(d, Head(names))
         IN  IF file \in plan.nomem THEN f
             ELSE IF ~Exists(f, file) THEN PurgeEntries(f, d, Tail(names), plan)
             ELSE LET f1 == IF StModeHasIFREG(f, file)
                            THEN unlink(f, file, plan)
                            ELSE rmdir(empty_folder(f, file, plan), file, plan)
                  IN  PurgeEntries(f1, d, Tail(names), plan)

empty_folder(f, path, plan) ==
    LET d == Resolve(f, path)
    IN  IF ~IsDir(f, d) THEN f
        ELSE PurgeEntries(f, d, ReadDir(f, d, plan.rev), plan)

(* ------------------------- shared-memory region ------------------------ *)
CounterNames ==
    {"read_reqs_submitted", "write_reqs_submitted",
     "read_reqs_merged", "write_reqs_merged",
     "read_reqs_completed", "write_reqs_completed",
     "read_sectors", "write_sectors",
     "read_total_ticks", "write_total_ticks"}
ZeroPage == [c \in CounterNames |-> 0]

\* shm_init: zero the descriptor
shm_init == [path |-> NoPath, size |-> 0, mem |-> NULL]

\* shm_create: back the descriptor's path by a zero-filled file of shm.size
\* bytes and map it.  `fail` is an allocation / mapping failure.
shm_create(shm, f, mps, pgs, fail) ==
    LET p     == shm.path
        can   == /\ ~fail
                 /\ IsDir(f, Parent(p))
                 /\ Exists(f, p) => f[p].kind = "reg"
        m     == Len(mps) + 1
        ino   == IF Exists(f, p) /\ f[p].ino # 0 THEN f[p].ino ELSE m
    IN  IF can
        THEN [err |-> 0, errno |-> 0,
              fs |-> Put(f, p, RegionNode(ino, shm.size)),
              maps |-> Append(mps, [ino |-> ino, size |-> shm.size, live |-> TRUE]),
              pages |-> Put(pgs, ino, ZeroPage),
              shm |-> [shm EXCEPT !.mem = m]]
        ELSE [err |-> -1,
              errno |-> IF ~IsDir(f, Parent(p)) THEN ENOENT ELSE ENOMEM,
              fs |-> f, maps |-> mps, pages |-> pgs, shm |-> shm]

\* the kernel frees the page of an inode that has no link and no mapping
Reap(pgs, f, mps) ==
    LET kept == {i \in DOMAIN pgs :
                    \/ \E p \in DOMAIN f : f[p].ino = i
                    \/ \E m \in DOMAIN mps : mps[m].ino = i /\ mps[m].live}
    IN  [i \in kept |-> pgs[i]]

\* shm_destroy: unmap the region and remove the backing file.  `fail` is a
\* failure of the removal.
shm_destroy(shm, f, mps, fail) ==
    LET p    == shm.path
        gone == ~fail /\ Exists(f, p) /\ f[p].kind # "dir"
    IN  [err |-> IF gone THEN 0 ELSE -1,
         errno |-> IF gone THEN 0 ELSE IF Exists(f, p) THEN EACCES ELSE ENOENT,
         fs |-> IF gone THEN Remove(f, p) ELSE f,
         maps |-> IF shm.mem # NULL
                  THEN [mps EXCEPT ![shm.mem].live = FALSE] ELSE mps]

(* ------------------------------- state --------------------------------- *)
VARIABLES
    fs,          \* the filesystem: path -> node
    td_metrics,  \* the static td_metrics struct: [path]
    stats,       \* the stats_t objects: handle -> [shm, stats]
    maps,        \* the mappings made so far: <<[ino, size, live]>>
    pages,       \* inode -> the ten counters of its page
    tiocbs,      \* the I/O engine's operation descriptors
    last,        \* the call that was made last and what it returned
    crashed,     \* "no", or why the run ended: "assert", "segv", "wild"
    life,        \* handle -> UNINITIALIZED / ACTIVE / RELEASED
    tally        \* handle -> operations handed to each hook since its start

vars == <<fs, td_metrics, stats, maps, pages, tiocbs, last, crashed, life, tally>>

RequestCounters ==
    {"read_reqs_submitted", "write_reqs_submitted",
     "read_reqs_merged", "write_reqs_merged",
     "read_reqs_completed", "write_reqs_completed"}
SectorCounters == {"read_sectors", "write_sectors"}
\* reads / writes of the device that were in flight when it was started
CarriedCounters == {"read_carried", "write_carried"}
ZeroTally == [k \in RequestCounters \cup SectorCounters \cup CarriedCounters |-> 0]
FreeTiocb == [st |-> "free", opcode |-> "IO_CMD_PREAD", vdi_stats |-> "h1",
             ts |-> 0, merged |-> FALSE]

\* the record of a call: its name, its handle, what it returned, what it
\* found (the root's state or the handle's lifecycle state), whether every
\* system call it made succeeded, and whether the call before was the same
Call(op, h, ret, pre, clean) ==
    [op |-> op, h |-> h, ret |-> ret, pre |-> pre, clean |-> clean,
     again |-> (last.op = op)]

(* ----------------------- initial filesystems --------------------------- *)
RECURSIVE Nest(_, _, _)
\* k nested subdirectories below d, each holding one regular file
Nest(f, d, k) ==
    IF k = 0 THEN f
    ELSE LET s == Append(d, <<"sub">>)
         IN  Nest(Put(Put(f, s, DirNode), Append(s, <<"f">>), RegNode), s, k - 1)

FsBase == Put(Put(<< >>, ExtPath, DirNode), Append(ExtPath, <<"f">>), RegNode)
FsAbsent == FsBase
FsFile == Put(FsBase, RootPath, RegNode)
FsEmpty == Put(FsBase, RootPath, DirNode)
FsPlain ==
    Nest(Put(Put(FsEmpty, Append(RootPath, <<"f">>), RegNode),
             VdiPath(RootPath, 7), RegNode), RootPath, MaxDepth)
FsSpecial ==
    Put(Put(Put(FsEmpty, Append(RootPath, <<"lnk">>), Node("lnk", 0)),
            Append(RootPath, <<"fifo">>), Node("fifo", 0)),
        Append(RootPath, <<"f">>), RegNode)
\* region files left behind by an earlier process with the same pid
FsStale ==
    Put(Put(FsEmpty, VdiPath(RootPath, 7), RegNode), VbdPath(RootPath, 1, 0), RegNode)
InitialFs == {FsAbsent, FsFile, FsEmpty, FsStale, FsPlain, FsSpecial}

\* what lies at the root path, as the Directory Manager's calls find it
RootState(f) ==
    IF ~Exists(f, RootPath) THEN "absent"
    ELSE IF ~IsDir(f, RootPath) THEN "file"
    ELSE IF Children(f, RootPath) = {} THEN "empty"
    ELSE IF \E p \in Under(f, RootPath) : f[p].kind \notin {"reg", "dir"}
         THEN "special"
    ELSE IF \E p \in Under(f, RootPath) : Len(p) > Len(RootPath) + 1 THEN "nested"
    ELSE "plain"

\* the state after construction: a filesystem out of F, zeroed stats_t
\* objects H, free operation descriptors O
InitWith(F, H, O) ==
    /\ fs \in F
    /\ td_metrics = [path |-> NoPath]
    /\ stats = [h \in H |-> [shm |-> shm_init, stats |-> NULL]]
    /\ maps = << >>
    /\ pages = << >>
    /\ tiocbs = [o \in O |-> FreeTiocb]
    /\ last = [op |-> "none", h |-> "none", ret |-> 0, pre |-> "none",
               clean |-> TRUE, again |-> FALSE]
    /\ crashed = "no"
    /\ life = [h \in H |-> "UNINITIALIZED"]
    /\ tally = [h \in H |-> ZeroTally]

Init == InitWith({FsAbsent}, Handles, Ops)

(* -------------------------- Directory Manager -------------------------- *)
\* td_metrics_start with asprintf failing
td_metrics_start_nomem ==
    /\ crashed = "no"
    /\ td_metrics' = [path |-> NoPath]
    /\ last' = Call("td_metrics_start", "none", ENOMEM, RootState(fs), FALSE)
    /\ UNCHANGED <<fs, stats, maps, pages, tiocbs, crashed, life, tally>>

\* td_metrics_start with mkdir succeeding, or failing other than EEXIST
td_metrics_start_mkdir ==
    /\ crashed = "no"
    /\ ~Exists(fs, RootPath)
    /\ td_metrics' = [path |-> MetricsPath(PID)]
    /\ \E mkfail \in BOOLEAN :
          /\ fs' = IF mkfail THEN fs ELSE Put(fs, RootPath, DirNode)
          /\ last' = Call("td_metrics_start", "none", IF mkfail THEN -1 ELSE 0,
                          RootState(fs), ~mkfail)
    /\ UNCHANGED <<stats, maps, pages, tiocbs, crashed, life, tally>>

\* td_metrics_start with mkdir failing with EEXIST: the stale entry is purged
td_metrics_start_eexist ==
    /\ crashed = "no"
    /\ Exists(fs, RootPath)
    /\ td_metrics' = [path |-> MetricsPath(PID)]
    /\ \E plan \in Plans(fs) :
          /\ fs' = empty_folder(fs, MetricsPath(PID), plan)
          /\ last' = Call("td_metrics_start", "none", 0, RootState(fs), NoFault(plan))
    /\ pages' = Reap(pages, fs', maps)
    /\ UNCHANGED <<stats, maps, tiocbs, crashed, life, tally>>

td_metrics_start ==
    \/ td_metrics_start_nomem
    \/ td_metrics_start_mkdir
    \/ td_metrics_start_eexist

\* td_metrics_stop leaving td_metrics.path set after the rmdir succeeded
td_metrics_stop_keeps_path ==
    /\ crashed = "no"
    /\ IF td_metrics.path = NoPath
       THEN /\ last' = Call("td_metrics_stop", "none", 0, RootState(fs), TRUE)
            /\ UNCHANGED <<fs, td_metrics, pages>>
       ELSE \E plan \in Plans(fs) :
              LET f1 == empty_folder(fs, td_metrics.path, plan)
                  f2 == rmdir(f1, td_metrics.path, plan)
              IN  /\ fs' = f2
                  /\ td_metrics' = td_metrics
                  /\ pages' = Reap(pages, f2, maps)
                  /\ last' = Call("td_metrics_stop", "none", 0, RootState(fs),
                                  NoFault(plan))
    /\ UNCHANGED <<stats, maps, tiocbs, crashed, life, tally>>

td_metrics_stop ==
    /\ crashed = "no"
    /\ IF td_metrics.path = NoPath
       THEN /\ last' = Call("td_metrics_stop", "none", 0, RootState(fs), TRUE)
            /\ UNCHANGED <<fs, td_metrics, pages>>
       ELSE \E plan \in Plans(fs) :
              LET f1 == empty_folder(fs, td_metrics.path, plan)
                  f2 == rmdir(f1, td_metrics.path, plan)
              IN  /\ fs' = f2
                  /\ td_metrics' = IF rmdir_ok(f1, td_metrics.path, plan)
                                   THEN [path |-> NoPath] ELSE td_metrics
                  /\ pages' = Reap(pages, f2, maps)
                  /\ last' = Call("td_metrics_stop", "none", 0, RootState(fs),
                                  NoFault(plan))
    /\ UNCHANGED <<stats, maps, tiocbs, crashed, life, tally>>

(* ------------------------- Device Stats Handle ------------------------- *)
\* ASSERT(_p) failing: the process is terminated
Panic(op, h) ==
    /\ crashed' = "assert"
    /\ last' = Call(op, h, 0, "none", TRUE)
    /\ UNCHANGED <<fs, td_metrics, stats, maps, pages, tiocbs, life, tally>>

\* the operations of handle h with this opcode that were submitted and
\* have not completed
InFlight(h, opcode) ==
    {o \in DOMAIN tiocbs : /\ tiocbs[o].st = "submitted"
                           /\ tiocbs[o].vdi_stats = h
                           /\ tiocbs[o].opcode = opcode}
\* the history of a device that has just been started
StartTally(h) ==
    [ZeroTally EXCEPT !["read_carried"] = Cardinality(InFlight(h, "IO_CMD_PREAD")),
                      !["write_carried"] = Cardinality(InFlight(h, "IO_CMD_PWRITE"))]

\* the start body without shm.size = PAGE_SIZE
StartRegion_no_size(op, h, path, nomem, cfail) ==
    LET shm1 == [shm_init EXCEPT !.path = path]
        r    == shm_create(shm1, fs, maps, pages, cfail)
    IN  IF nomem
        THEN /\ stats' = [stats EXCEPT ![h].shm = shm_init]
             /\ life' = [life EXCEPT ![h] = IF @ = "ACTIVE" THEN "UNINITIALIZED" ELSE @]
             /\ last' = Call(op, h, ENOMEM, life[h], FALSE)
             /\ UNCHANGED <<fs, maps, pages, tally>>
        ELSE IF r.err # 0
        THEN /\ stats' = [stats EXCEPT ![h].shm = r.shm]
             /\ life' = [life EXCEPT ![h] = IF @ = "ACTIVE" THEN "UNINITIALIZED" ELSE @]
             /\ last' = Call(op, h, r.errno, life[h], ~cfail)
             /\ UNCHANGED <<fs, maps, pages, tally>>
        ELSE /\ stats' = [stats EXCEPT ![h] = [shm |-> r.shm, stats |-> r.shm.mem]]
             /\ fs' = r.fs
             /\ maps' = r.maps
             /\ pages' = r.pages
             /\ life' = [life EXCEPT ![h] = "ACTIVE"]
             /\ tally' = [tally EXCEPT ![h] = StartTally(h)]
             /\ last' = Call(op, h, 0, life[h], TRUE)

\* the start body without stats = shm.mem
StartRegion_no_bind(op, h, path, nomem, cfail) ==
    LET shm1 == [shm_init EXCEPT !.path = path, !.size = PAGE_SIZE]
        r    == shm_create(shm1, fs, maps, pages, cfail)
    IN  IF nomem
        THEN /\ stats' = [stats EXCEPT ![h].shm = shm_init]
             /\ life' = [life EXCEPT ![h] = IF @ = "ACTIVE" THEN "UNINITIALIZED" ELSE @]
             /\ last' = Call(op, h, ENOMEM, life[h], FALSE)
             /\ UNCHANGED <<fs, maps, pages, tally>>
        ELSE IF r.err # 0
        THEN /\ stats' = [stats EXCEPT ![h].shm = r.shm]
             /\ life' = [life EXCEPT ![h] = IF @ = "ACTIVE" THEN "UNINITIALIZED" ELSE @]
             /\ last' = Call(op, h, r.errno, life[h], ~cfail)
             /\ UNCHANGED <<fs, maps, pages, tally>>
        ELSE /\ stats' = [stats EXCEPT ![h].shm = r.shm]
             /\ fs' = r.fs
             /\ maps' = r.maps
             /\ pages' = r.pages
             /\ life' = [life EXCEPT ![h] = "ACTIVE"]
             /\ tally' = [tally EXCEPT ![h] = StartTally(h)]
             /\ last' = Call(op, h, 0, life[h], TRUE)

\* the body shared by td_metrics_vdi_start and td_metrics_vbd_start, after
\* the ASSERT: `path` is what asprintf formats, `nomem` is asprintf failing,
\* `cfail` is shm_create failing on its own
StartRegion(op, h, path, nomem, cfail) ==
    LET shm1 == [shm_init EXCEPT !.path = path, !.size = PAGE_SIZE]
        r    == shm_create(shm1, fs, maps, pages, cfail)
    IN  IF nomem
        THEN /\ stats' = [stats EXCEPT ![h].shm = shm_init]
             /\ life' = [life EXCEPT ![h] = IF @ = "ACTIVE" THEN "UNINITIALIZED" ELSE @]
             /\ last' = Call(op, h, ENOMEM, life[h], FALSE)
             /\ UNCHANGED <<fs, maps, pages, tally>>
        ELSE IF r.err # 0
        THEN /\ stats' = [stats EXCEPT ![h].shm = r.shm]
             /\ life' = [life EXCEPT ![h] = IF @ = "ACTIVE" THEN "UNINITIALIZED" ELSE @]
             /\ last' = Call(op, h, r.errno, life[h], ~cfail)
             /\ UNCHANGED <<fs, maps, pages, tally>>
        ELSE /\ stats' = [stats EXCEPT ![h] = [shm |-> r.shm, stats |-> r.shm.mem]]
             /\ fs' = r.fs
             /\ maps' = r.maps
             /\ pages' = r.pages
             /\ life' = [life EXCEPT ![h] = "ACTIVE"]
             /\ tally' = [tally EXCEPT ![h] = StartTally(h)]
             /\ last' = Call(op, h, 0, life[h], TRUE)

td_metrics_vdi_start(minor, h) ==
    /\ crashed = "no"
    /\ Len(maps) < MaxRegions
    /\ IF td_metrics.path = NoPath
       THEN Panic("td_metrics_vdi_start", h)
       ELSE /\ \E nomem \in BOOLEAN, cfail \in BOOLEAN :
                 StartRegion("td_metrics_vdi_start", h,
                             VdiPath(td_metrics.path, minor), nomem, cfail)
            /\ UNCHANGED <<td_metrics, tiocbs, crashed>>

td_metrics_vbd_start(domain, id, h) ==
    /\ crashed = "no"
    /\ Len(maps) < MaxRegions
    /\ IF td_metrics.path = NoPath
       THEN Panic("td_metrics_vbd_start", h)
       ELSE /\ \E nomem \in BOOLEAN, cfail \in BOOLEAN :
                 StartRegion("td_metrics_vbd_start", h,
                             VbdPath(td_metrics.path, domain, id), nomem, cfail)
            /\ UNCHANGED <<td_metrics, tiocbs, crashed>>

\* the stop body returning right after a failed shm_destroy, before the
\* path is released
StopRegion_returns_early(op, h, dfail) ==
    LET r == shm_destroy(stats[h].shm, fs, maps, dfail)
    IN  /\ fs' = r.fs
        /\ maps' = r.maps
        /\ stats' = IF r.err # 0 THEN stats ELSE [stats EXCEPT ![h].shm.path = NoPath]
        /\ life' = [life EXCEPT ![h] = "RELEASED"]
        /\ pages' = Reap(pages, r.fs, r.maps)
        /\ last' = Call(op, h, IF r.err # 0 THEN r.errno ELSE 0, life[h], r.err = 0)
        /\ UNCHANGED tally

\* the body shared by td_metrics_vdi_stop and td_metrics_vbd_stop, after the
\* ASSERT: `dfail` is the removal inside shm_destroy failing on its own
StopRegion(op, h, dfail) ==
    LET r == shm_destroy(stats[h].shm, fs, maps, dfail)
    IN  /\ fs' = r.fs
        /\ maps' = r.maps
        /\ stats' = [stats EXCEPT ![h].shm.path = NoPath]
        /\ life' = [life EXCEPT ![h] = "RELEASED"]
        /\ pages' = Reap(pages, r.fs, r.maps)
        /\ last' = Call(op, h, IF r.err # 0 THEN r.errno ELSE 0, life[h], r.err = 0)
        /\ UNCHANGED tally

td_metrics_vdi_stop(h) ==
    /\ crashed = "no"
    /\ IF stats[h].shm.path = NoPath
       THEN Panic("td_metrics_vdi_stop", h)
       ELSE /\ \E dfail \in BOOLEAN : StopRegion("td_metrics_vdi_stop", h, dfail)
            /\ UNCHANGED <<td_metrics, tiocbs, crashed>>

td_metrics_vbd_stop(h) ==
    /\ crashed = "no"
    /\ IF stats[h].shm.path = NoPath
       THEN Panic("td_metrics_vbd_stop", h)
       ELSE /\ \E dfail \in BOOLEAN : StopRegion("td_metrics_vbd_stop", h, dfail)
            /\ UNCHANGED <<td_metrics, tiocbs, crashed>>

(* ------------------------- Instrumentation Hooks ----------------------- *)
\* vdi_stats->stats can be dereferenced: it was bound and is still mapped
Mapped(h) == stats[h].stats # NULL /\ maps[stats[h].stats].live
PageOf(h) == maps[stats[h].stats].ino
Add(pgs, h, c, d) == [pgs EXCEPT ![PageOf(h)][c] = (@ + d) % CounterMod]
Count(tl, h, c) == [tl EXCEPT ![h][c] = @ + 1]
Dir(opcode) ==
    IF opcode = "IO_CMD_PREAD" THEN "read"
    ELSE IF opcode = "IO_CMD_PWRITE" THEN "write" ELSE "other"

\* the I/O engine prepares an operation descriptor for an attached device
tapdisk_prep_tiocb(o, h, opcode) ==
    /\ crashed = "no"
    /\ tiocbs[o].st = "free"
    /\ life[h] = "ACTIVE"
    /\ tiocbs' = [tiocbs EXCEPT ![o] = [st |-> "prepared", opcode |-> opcode,
                                        vdi_stats |-> h, ts |-> 0,
                                        merged |-> FALSE]]
    /\ last' = Call("tapdisk_prep_tiocb", h, 0, "none", TRUE)
    /\ UNCHANGED <<fs, td_metrics, stats, maps, pages, crashed, life, tally>>

\* an access through a stats pointer that is NULL or no longer mapped is
\* undefined: the process takes SIGSEGV, or (address handed out again to
\* some other allocation) the increment lands in memory that is not a
\* stats page - "wild"; what the process does after that is not modelled
Segv(op) ==
    /\ crashed' \in {"segv", "wild"}
    /\ last' = Call(op, "none", 0, "none", FALSE)
    /\ UNCHANGED <<fs, td_metrics, stats, maps, pages, tiocbs, life, tally>>

\* the submit loop counting reads only
SubmitOne_reads_only(pgs, t) ==
    IF t.opcode = "IO_CMD_PREAD"
    THEN Add(pgs, t.vdi_stats, "read_reqs_submitted", 1)
    ELSE pgs

\* the submit loop with its two branches exchanged
SubmitOne_swapped(pgs, t) ==
    IF t.opcode = "IO_CMD_PREAD"
    THEN Add(pgs, t.vdi_stats, "write_reqs_submitted", 1)
    ELSE Add(pgs, t.vdi_stats, "read_reqs_submitted", 1)

\* one iteration of the loop of td_metrics_vdi_update_submit
SubmitOne(pgs, t) ==
    IF t.opcode = "IO_CMD_PREAD"
    THEN Add(pgs, t.vdi_stats, "read_reqs_submitted", 1)
    ELSE Add(pgs, t.vdi_stats, "write_reqs_submitted", 1)

\* td_metrics_vdi_update_merged on one descriptor
MergeOne(pgs, t) ==
    IF t.opcode = "IO_CMD_PREAD"
    THEN Add(pgs, t.vdi_stats, "read_reqs_merged", 1)
    ELSE Add(pgs, t.vdi_stats, "write_reqs_merged", 1)

\* the completion loop counting every started sector, not every whole one
CompleteOne_rounds_up(pgs, t, nbytes, end) ==
    LET interval == end - t.ts
        sectors  == (nbytes + DEFAULT_SECTOR_SIZE - 1) \div DEFAULT_SECTOR_SIZE
        h        == t.vdi_stats
    IN  IF t.opcode = "IO_CMD_PREAD"
        THEN Add(Add(Add(pgs, h, "read_reqs_completed", 1),
                     h, "read_sectors", sectors), h, "read_total_ticks", interval)
        ELSE IF t.opcode = "IO_CMD_PWRITE"
        THEN Add(Add(Add(pgs, h, "write_reqs_completed", 1),
                     h, "write_sectors", sectors), h, "write_total_ticks", interval)
        ELSE pgs

\* the completion loop with the bare else of the submit and merge hooks
CompleteOne_bare_else(pgs, t, nbytes, end) ==
    LET interval == end - t.ts
        sectors  == nbytes \div DEFAULT_SECTOR_SIZE
        h        == t.vdi_stats
    IN  IF t.opcode = "IO_CMD_PREAD"
        THEN Add(Add(Add(pgs, h, "read_reqs_completed", 1),
                     h, "read_sectors", sectors), h, "read_total_ticks", interval)
        ELSE Add(Add(Add(pgs, h, "write_reqs_completed", 1),
                     h, "write_sectors", sectors), h, "write_total_ticks", interval)

\* one iteration of the loop of td_metrics_vdi_update_completed
CompleteOne(pgs, t, nbytes, end) ==
    LET interval == end - t.ts
        sectors  == nbytes \div DEFAULT_SECTOR_SIZE
        h        == t.vdi_stats
    IN  IF t.opcode = "IO_CMD_PREAD"
        THEN Add(Add(Add(pgs, h, "read_reqs_completed", 1),
                     h, "read_sectors", sectors), h, "read_total_ticks", interval)
        ELSE IF t.opcode = "IO_CMD_PWRITE"
        THEN Add(Add(Add(pgs, h, "write_reqs_completed", 1),
                     h, "write_sectors", sectors), h, "write_total_ticks", interval)
        ELSE pgs

\* the N of a byte count N * sector_size + r with 0 <= r < sector_size
WholeSectors ==
    [n \in ByteCounts |->
        CHOOSE N \in 0 .. n : \E r \in 0 .. DEFAULT_SECTOR_SIZE - 1 :
                                 n = N * DEFAULT_SECTOR_SIZE + r]

TallyOne(tl, t, hook) ==
    IF Dir(t.opcode) = "other" THEN tl
    ELSE Count(tl, t.vdi_stats, Dir(t.opcode) \o "_reqs_" \o hook)

RECURSIVE SubmitAll(_, _)
SubmitAll(pgs, batch) ==
    IF batch = {} THEN pgs
    ELSE LET o == CHOOSE x \in batch : TRUE
         IN  SubmitAll(SubmitOne(pgs, tiocbs[o]), batch \ {o})

RECURSIVE CompleteAll(_, _, _, _)
CompleteAll(pgs, batch, nbytes, end) ==
    IF batch = {} THEN pgs
    ELSE LET o == CHOOSE x \in batch : TRUE
         IN  CompleteAll(CompleteOne(pgs, tiocbs[o], nbytes[o], end),
                         batch \ {o}, nbytes, end)

RECURSIVE TallyAll(_, _, _)
TallyAll(tl, batch, hook) ==
    IF batch = {} THEN tl
    ELSE LET o == CHOOSE x \in batch : TRUE
         IN  TallyAll(TallyOne(tl, tiocbs[o], hook), batch \ {o}, hook)

RECURSIVE TallySectors(_, _, _)
TallySectors(tl, batch, nbytes) ==
    IF batch = {} THEN tl
    ELSE LET o == CHOOSE x \in batch : TRUE
             t == tiocbs[o]
             tl1 == IF Dir(t.opcode) = "other" THEN tl
                    ELSE [tl EXCEPT ![t.vdi_stats][Dir(t.opcode) \o "_sectors"] =
                                        @ + WholeSectors[nbytes[o]]]
         IN  TallySectors(tl1, batch \ {o}, nbytes)

Batches(st) == (SUBSET {o \in DOMAIN tiocbs : tiocbs[o].st = st}) \ {{}}

td_metrics_vdi_update_submit(batch, start) ==
    /\ crashed = "no"
    /\ IF \E o \in batch : ~Mapped(tiocbs[o].vdi_stats)
       THEN Segv("td_metrics_vdi_update_submit")
       ELSE /\ pages' = SubmitAll(pages, batch)
            /\ tiocbs' = [o \in DOMAIN tiocbs |->
                            IF o \in batch
                            THEN [tiocbs[o] EXCEPT !.ts = start, !.st = "submitted"]
                            ELSE tiocbs[o]]
            /\ tally' = TallyAll(tally, batch, "submitted")
            /\ last' = Call("td_metrics_vdi_update_submit", "none", 0, "none", TRUE)
            /\ UNCHANGED <<fs, td_metrics, stats, maps, crashed, life>>

td_metrics_vdi_update_merged(o) ==
    /\ crashed = "no"
    /\ tiocbs[o].st \in {"prepared", "submitted"}
    /\ ~tiocbs[o].merged
    /\ IF ~Mapped(tiocbs[o].vdi_stats)
       THEN Segv("td_metrics_vdi_update_merged")
       ELSE /\ pages' = MergeOne(pages, tiocbs[o])
            /\ tiocbs' = [tiocbs EXCEPT ![o].merged = TRUE]
            /\ tally' = TallyOne(tally, tiocbs[o], "merged")
            /\ last' = Call("td_metrics_vdi_update_merged", tiocbs[o].vdi_stats,
                            0, "none", TRUE)
            /\ UNCHANGED <<fs, td_metrics, stats, maps, crashed, life>>

\* nbytes[o] is u.c.nbytes of the descriptor of event o
td_metrics_vdi_update_completed(batch, nbytes, end) ==
    /\ crashed = "no"
    /\ IF \E o \in batch : ~Mapped(tiocbs[o].vdi_stats)
       THEN Segv("td_metrics_vdi_update_completed")
       ELSE /\ pages' = CompleteAll(pages, batch, nbytes, end)
            /\ tiocbs' = [o \in DOMAIN tiocbs |->
                            IF o \in batch
                            THEN [FreeTiocb EXCEPT !.st = "completed"]
                            ELSE tiocbs[o]]
            /\ tally' = TallySectors(TallyAll(tally, batch, "completed"), batch, nbytes)
            /\ last' = Call("td_metrics_vdi_update_completed", "none", 0, "none", TRUE)
            /\ UNCHANGED <<fs, td_metrics, stats, maps, crashed, life>>

(* ---------------------------- specification ---------------------------- *)
\* the calls of the Directory Manager
DirNext ==
    \/ td_metrics_start
    \/ td_metrics_stop

\* the calls that attach and detach a VDI
VdiNext ==
    \/ \E h \in DOMAIN stats, minor \in Minors : td_metrics_vdi_start(minor, h)
    \/ \E h \in DOMAIN stats : td_metrics_vdi_stop(h)

\* the calls that attach and detach a VBD
VbdNext ==
    \/ \E h \in DOMAIN stats, id \in VbdIds : td_metrics_vbd_start(id[1], id[2], h)
    \/ \E h \in DOMAIN stats : td_metrics_vbd_stop(h)

\* the I/O engine queueing operations and calling the hooks
HookNext ==
    \/ \E o \in DOMAIN tiocbs, h \in DOMAIN stats, opcode \in Opcodes :
          tapdisk_prep_tiocb(o, h, opcode)
    \/ \E batch \in Batches("prepared"), start \in Usecs :
          td_metrics_vdi_update_submit(batch, start)
    \/ \E o \in DOMAIN tiocbs : td_metrics_vdi_update_merged(o)
    \/ \E batch \in Batches("submitted"), end \in Usecs :
          \E nbytes \in [batch -> ByteCounts] :
             td_metrics_vdi_update_completed(batch, nbytes, end)

Next == DirNext \/ VdiNext \/ VbdNext

\* the directory and device lifecycle, from every initial filesystem
Spec == Init /\ [][Next]_vars

\* the Directory Manager alone, from every initial filesystem
InitDir == InitWith(InitialFs, Handles, Ops)
SpecDir == InitDir /\ [][DirNext]_vars

\* one device and the I/O hooks, the root created by td_metrics_start()
InitIO ==
    /\ fs = Put(FsAbsent, RootPath, DirNode)
    /\ td_metrics = [path |-> MetricsPath(PID)]
    /\ stats = [h \in {"h1"} |-> [shm |-> shm_init, stats |-> NULL]]
    /\ maps = << >>
    /\ pages = << >>
    /\ tiocbs = [o \in Ops |-> FreeTiocb]
    /\ last = [op |-> "td_metrics_start", h |-> "none", ret |-> 0, pre |-> "absent",
               clean |-> TRUE, again |-> FALSE]
    /\ crashed = "no"
    /\ life = [h \in {"h1"} |-> "UNINITIALIZED"]
    /\ tally = [h \in {"h1"} |-> ZeroTally]

NextIO == VdiNext \/ HookNext
SpecIO == InitIO /\ [][NextIO]_vars

\* the hooks alone on one attached device: the state td_metrics_start()
\* followed by td_metrics_vdi_start(7, &h1) leaves
InitHook ==
    /\ fs = Put(FsEmpty, VdiPath(RootPath, 7), RegionNode(1, PAGE_SIZE))
    /\ td_metrics = [path |-> MetricsPath(PID)]
    /\ stats = [h \in {"h1"} |->
                  [shm |-> [path |-> VdiPath(RootPath, 7), size |-> PAGE_SIZE, mem |-> 1],
                   stats |-> 1]]
    /\ maps = << [ino |-> 1, size |-> PAGE_SIZE, live |-> TRUE] >>
    /\ pages = Put(<< >>, 1, ZeroPage)
    /\ tiocbs = [o \in Ops |-> FreeTiocb]
    /\ last = [op |-> "td_metrics_vdi_start", h |-> "h1", ret |-> 0,
               pre |-> "UNINITIALIZED", clean |-> TRUE, again |-> FALSE]
    /\ crashed = "no"
    /\ life = [h \in {"h1"} |-> "ACTIVE"]
    /\ tally = [h \in {"h1"} |-> ZeroTally]

SpecHook == InitHook /\ [][HookNext]_vars

\* root, devices and hooks together: one device, one operation descriptor
InitAll == InitWith({FsAbsent}, {"h1"}, {"op1"})
NextAll == DirNext \/ VdiNext \/ HookNext
SpecAll == InitAll /\ [][NextAll]_vars

\* the end-to-end run of one device: the root is created, VDI 7 is attached,
\* three reads and two writes of one page each are queued in order, submitted
\* and completed in any batches, the device is detached and the root stopped
OpOrder == <<"op1", "op2", "op3", "op4", "op5">>
ScenarioOpcode ==
    [o \in {"op1", "op2", "op3"} |-> "IO_CMD_PREAD"] @@
    [o \in {"op4", "op5"} |-> "IO_CMD_PWRITE"]
InitScenario == InitWith({FsAbsent}, {"h1"}, {OpOrder[i] : i \in DOMAIN OpOrder})
NextScenario ==
    \/ maps = << >> /\ td_metrics_start
    \/ td_metrics_stop
    \/ maps = << >> /\ td_metrics_vdi_start(7, "h1")
    \/ td_metrics_vdi_stop("h1")
    \/ \E i \in DOMAIN OpOrder :
          /\ \A j \in 1 .. (i - 1) : tiocbs[OpOrder[j]].st # "free"
          /\ tapdisk_prep_tiocb(OpOrder[i], "h1", ScenarioOpcode[OpOrder[i]])
    \/ \E batch \in Batches("prepared") :
          td_metrics_vdi_update_submit(batch, 0)
    \/ \E batch \in Batches("submitted") :
          td_metrics_vdi_update_completed(batch, [o \in batch |-> PAGE_SIZE], MaxUsec)
SpecScenario == InitScenario /\ [][NextScenario]_vars

(* ------------------------------- claims -------------------------------- *)
RootIsEmptyDir == IsDir(fs, RootPath) /\ Children(fs, RootPath) = {}

\* C4 (as claimed): whenever td_metrics_start returns success the root
\* exists as a directory and is empty, whatever lay at the root path before
\* and whether or not its purge succeeded.
C4_SuccessMeansEmptyRoot ==
    (last.op = "td_metrics_start" /\ last.ret = 0) => RootIsEmptyDir

\* C5: td_metrics_start called on a stale non-empty root holding regular
\* files and nested subdirectories, every system call of the purge
\* succeeding, returns success and leaves the root an empty directory.
C5_StaleReuse ==
    (/\ last.op = "td_metrics_start"
     /\ last.pre \in {"plain", "nested"}
     /\ last.clean)
    => (last.ret = 0 /\ RootIsEmptyDir)

C5_Witness ==
    /\ last.op = "td_metrics_start"
    /\ last.pre = "nested"
    /\ last.clean
    /\ last.ret = 0
    /\ RootIsEmptyDir

StartOps == {"td_metrics_vdi_start", "td_metrics_vbd_start"}
StopOps == {"td_metrics_vdi_stop", "td_metrics_vbd_stop"}
HookOps == {"td_metrics_vdi_update_submit", "td_metrics_vdi_update_merged",
            "td_metrics_vdi_update_completed"}
RegionPaths(root) ==
    {VdiPath(root, m) : m \in Minors} \cup {VbdPath(root, i[1], i[2]) : i \in VbdIds}

\* C1: right after a device start returned success the region file exists
\* at the path derived from the root and the identity, is one page long,
\* is the file the handle maps, and its ten counters read zero.
C1_StartedRegion ==
    (last.op \in StartOps /\ last.ret = 0 /\ crashed = "no")
    => LET h == last.h
           p == stats[h].shm.path
       IN  /\ p \in RegionPaths(td_metrics.path)
           /\ Exists(fs, p)
           /\ fs[p].kind = "reg"
           /\ fs[p].size = PAGE_SIZE
           /\ Mapped(h)
           /\ fs[p].ino = PageOf(h)
           /\ \A c \in CounterNames : pages[PageOf(h)][c] = 0

\* a start that succeeded on a handle whose earlier region had counted
C1_Witness ==
    /\ last.op \in StartOps
    /\ last.ret = 0
    /\ last.pre = "ACTIVE"
    /\ crashed = "no"
    /\ Exists(fs, stats[last.h].shm.path)
    /\ \E o \in DOMAIN tiocbs : tiocbs[o].st = "completed"

\* C2 (as claimed): for an ACTIVE device each of the six request counters
\* equals the number of operations handed to its hook with the matching
\* opcode; an operation that is neither a read nor a write counts nowhere.
C2_CountersEqualCalls ==
    \A h \in DOMAIN stats :
        (life[h] = "ACTIVE" /\ Mapped(h))
        => \A k \in RequestCounters : pages[PageOf(h)][k] = tally[h][k]

\* C3 (as claimed): no hook call leaves any of the ten counters of a page
\* lower than it was before the call.
C3_HooksNeverDecrease ==
    [][(last'.op \in HookOps)
       => \A i \in (DOMAIN pages) \cap (DOMAIN pages') :
             \A c \in CounterNames : pages'[i][c] >= pages[i][c]]_vars

\* C6 (as claimed): a device start gets past its ASSERT only when the root
\* directory exists on disk.
C6_StartNeedsRootOnDisk ==
    [][(last'.op \in StartOps /\ crashed' = "no") => IsDir(fs, RootPath)]_vars

\* C8: a device stop on a handle with a path unmaps the region, releases
\* the path whether or not the destroy succeeded, returns nonzero exactly
\* when the destroy failed, and after a return of 0 the file is gone.
C8_StopReleases ==
    [][(last'.op \in StopOps /\ crashed' = "no")
       => LET h == last'.h
          IN  /\ stats[h].shm.path # NoPath
              /\ stats'[h].shm.path = NoPath
              /\ stats[h].shm.mem # NULL => ~maps'[stats[h].shm.mem].live
              /\ (last'.ret # 0) <=> ~last'.clean
              /\ last'.ret = 0 => ~Exists(fs', stats[h].shm.path)]_vars

\* a stop whose destroy failed and that still released the path
C8_Witness ==
    /\ last.op \in StopOps
    /\ crashed = "no"
    /\ last.ret # 0
    /\ ~last.clean
    /\ last.pre = "ACTIVE"
    /\ stats[last.h].shm.path = NoPath

\* C9 (as claimed): once stopped, a handle never becomes ACTIVE again.
C9_ReleasedIsTerminal ==
    [][\A h \in DOMAIN stats : life[h] = "RELEASED" => life'[h] # "ACTIVE"]_vars

\* C9 (amended): a handle that was stopped stays RELEASED until a later
\* start on the same object succeeds; that start makes it ACTIVE again,
\* bound to a newly mapped page of zero counters.
C9_ReleasedUntilRestart ==
    [][\A h \in DOMAIN stats :
          life[h] = "RELEASED"
          => /\ life'[h] \in {"RELEASED", "ACTIVE"}
             /\ (life'[h] = "ACTIVE")
                   <=> (last'.op \in StartOps /\ last'.h = h /\ last'.ret = 0
                        /\ crashed' = "no")
             /\ life'[h] = "ACTIVE"
                   => /\ stats'[h].stats # NULL
                      /\ stats'[h].stats = stats'[h].shm.mem
                      /\ maps'[stats'[h].stats].live
                      /\ pages'[maps'[stats'[h].stats].ino] = ZeroPage]_vars

\* a handle that was stopped and started again
C9_Witness ==
    /\ last.op \in StartOps
    /\ last.ret = 0
    /\ last.pre = "RELEASED"
    /\ life[last.h] = "ACTIVE"

\* C10 (as claimed): two distinct ACTIVE handles never have the same region
\* path nor the same backing file.
C10_NoSharedRegion ==
    \A a, b \in DOMAIN stats :
        (a # b /\ life[a] = "ACTIVE" /\ life[b] = "ACTIVE")
        => /\ stats[a].shm.path # stats[b].shm.path
           /\ maps[stats[a].shm.mem].ino # maps[stats[b].shm.mem].ino

\* the descriptors a completion call took out of flight
Completed == {o \in DOMAIN tiocbs : tiocbs[o].st = "submitted" /\ tiocbs'[o].st = "completed"}
\* those of direction `dir` ("read", "write" or "other")
CompletedDir(dir) == {o \in Completed : Dir(tiocbs[o].opcode) = dir}

\* C11: on an attached device read_sectors (write_sectors) is the sum, over
\* the read (write) completions so far, of the N of each byte count
\* N * sector_size + r with 0 <= r < sector_size, and one completion call
\* raises it by the N of the events of that direction only.
C11_SectorAccounting ==
    \A h \in DOMAIN stats :
        (life[h] = "ACTIVE" /\ Mapped(h))
        => \A k \in SectorCounters : pages[PageOf(h)][k] = tally[h][k] % CounterMod

\* a read of 4096 bytes and a read of 1000 bytes completed: 8 + 1 sectors
C11_Witness ==
    /\ last.op = "td_metrics_vdi_update_completed"
    /\ crashed = "no"
    /\ tally["h1"]["read_reqs_completed"] = 2
    /\ tally["h1"]["read_sectors"] = 9
    /\ pages[PageOf("h1")]["read_sectors"] = 9

\* C12: a completion call whose events are neither reads nor writes leaves
\* every counter of the page unchanged; more generally a call with no read
\* (write) event leaves the read (write) counters unchanged.
C12_OtherOpcodesIgnored ==
    [][(last'.op = "td_metrics_vdi_update_completed" /\ crashed' = "no")
       => /\ DOMAIN pages' = DOMAIN pages
          /\ \A i \in DOMAIN pages :
                /\ \A c \in CounterNames \ {"read_reqs_completed", "write_reqs_completed",
                                             "read_sectors", "write_sectors",
                                             "read_total_ticks", "write_total_ticks"} :
                       pages'[i][c] = pages[i][c]
                /\ CompletedDir("read") = {}
                      => \A c \in {"read_reqs_completed", "read_sectors", "read_total_ticks"} :
                            pages'[i][c] = pages[i][c]
                /\ CompletedDir("write") = {}
                      => \A c \in {"write_reqs_completed", "write_sectors", "write_total_ticks"} :
                            pages'[i][c] = pages[i][c]]_vars

\* both descriptors were submitted as IO_CMD_FSYNC (counted as writes by the
\* submit hook) and completed, and no completion counter moved
C12_Witness ==
    /\ last.op = "td_metrics_vdi_update_completed"
    /\ crashed = "no"
    /\ \A o \in DOMAIN tiocbs : tiocbs[o].st = "completed"
    /\ pages[PageOf("h1")]["write_reqs_submitted"] = 2
    /\ tally["h1"]["write_reqs_submitted"] = 0
    /\ \A c \in {"read_reqs_completed", "write_reqs_completed",
                  "read_sectors", "write_sectors",
                  "read_total_ticks", "write_total_ticks"} : pages[PageOf("h1")][c] = 0

\* the scenario's hook calls were made: all five operations were submitted,
\* two of the reads and one of the writes were completed
ScenarioCompleted(opcode) ==
    {o \in DOMAIN tiocbs : tiocbs[o].st = "completed" /\ ScenarioOpcode[o] = opcode}
ScenarioDone ==
    /\ DOMAIN tiocbs = DOMAIN ScenarioOpcode
    /\ \A o \in DOMAIN tiocbs : tiocbs[o].st \in {"submitted", "completed"}
    /\ Cardinality(ScenarioCompleted("IO_CMD_PREAD")) = 2
    /\ Cardinality(ScenarioCompleted("IO_CMD_PWRITE")) = 1
ScenarioCounters ==
    [c \in CounterNames |->
        CASE c = "read_reqs_submitted" -> 3
          [] c = "write_reqs_submitted" -> 2
          [] c = "read_reqs_completed" -> 2
          [] c = "write_reqs_completed" -> 1
          [] c = "read_sectors" -> 16
          [] c = "write_sectors" -> 8
          [] OTHER -> 0]

\* C13: (a) with the root created and VDI 7 attached, once 3 reads and 2
\* writes were submitted and 2 reads and 1 write of 4096 bytes completed,
\* the six request and sector counters read 3, 2, 2, 1, 16, 8 and the merge
\* counters 0; (b) a detach whose destroy succeeds leaves no region file
\* and leaves the root directory in place; (c) a root stop whose system
\* calls all succeed leaves no root directory.
C13_EndToEnd ==
    [][/\ (ScenarioDone /\ life["h1"] = "ACTIVE" /\ crashed = "no")'
            => \A c \in CounterNames \ {"read_total_ticks", "write_total_ticks"} :
                  pages'[PageOf("h1")'][c] = ScenarioCounters[c]
       /\ (last'.op = "td_metrics_vdi_stop" /\ crashed' = "no" /\ last'.ret = 0)
            => /\ ~Exists(fs', stats["h1"].shm.path)
               /\ IsDir(fs, RootPath) => IsDir(fs', RootPath)
       /\ (last'.op = "td_metrics_stop" /\ td_metrics.path # NoPath
              /\ IsDir(fs, RootPath) /\ last'.clean)
            => (~Exists(fs', RootPath) /\ td_metrics'.path = NoPath)]_vars

\* the whole scenario ran: the counts were made, the device was detached
\* and the root stop, finding the root empty, removed it
C13_Witness ==
    /\ ScenarioDone
    /\ crashed = "no"
    /\ life["h1"] = "RELEASED"
    /\ \A k \in RequestCounters \cup SectorCounters : tally["h1"][k] = ScenarioCounters[k]
    /\ last.op = "td_metrics_stop"
    /\ last.pre = "empty"
    /\ last.clean
    /\ ~Exists(fs, RootPath)
    /\ td_metrics.path = NoPath

\* C14 (as claimed): after a device start that returned an error the handle
\* is not ACTIVE, its region path is not set (so a stop would fail its
\* ASSERT) and no counters view is bound.
C14_FailedStartLeavesNothing ==
    (last.op \in StartOps /\ last.ret # 0 /\ crashed = "no")
    => /\ life[last.h] # "ACTIVE"
       /\ stats[last.h].shm.path = NoPath
       /\ stats[last.h].stats = NULL

\* C15 (as claimed): td_metrics_stop called with a root established (path
\* recorded, directory on disk) leaves no root directory and clears the
\* path, also when the removal of an entry or of the root itself failed.
C15_StopAlwaysTearsDown ==
    [][(last'.op = "td_metrics_stop" /\ td_metrics.path # NoPath /\ IsDir(fs, RootPath))
       => (~Exists(fs', RootPath) /\ td_metrics'.path = NoPath)]_vars

\* path a is path b or lies above it
Above(a, b) == Len(a) <= Len(b) /\ SubSeq(b, 1, Len(a)) = a

\* C16 (as claimed): a purge of a root of regular files and directories
\* that meets failures (building a path, unlink, rmdir) leaves behind only
\* what the failed entries account for - the entry itself, the directories
\* above it and what lies below it - for at most MaxFaults entries: every
\* sibling of a failed entry is removed by the same call.
C16_PurgeBestEffort ==
    [][(/\ \/ last'.op = "td_metrics_start" /\ td_metrics'.path # NoPath
           \/ last'.op = "td_metrics_stop" /\ td_metrics.path # NoPath
        /\ RootState(fs) \in {"plain", "nested"})
       => \E S \in FaultSets(Under(fs, RootPath)) :
             \A p \in Under(fs', RootPath) :
                \E q \in S : Above(p, q) \/ Above(q, p)]_vars

\* C17 (as claimed): as long as a handle is ACTIVE its region file is
\* present at its path and is the file the handle maps, whatever calls of
\* the Directory Manager and of other devices are made in between.
C17_ActiveFileStays ==
    \A h \in DOMAIN stats :
        life[h] = "ACTIVE"
        => /\ Exists(fs, stats[h].shm.path)
           /\ fs[stats[h].shm.path].kind = "reg"
           /\ fs[stats[h].shm.path].ino = PageOf(h)

\* C18 (as claimed): a hook call dereferences and updates the counters view
\* only of handles that are ACTIVE: it never goes through the stats pointer
\* of a handle that was not started or that was stopped, an operation
\* completing after its device's stop included.
C18_HooksOnlyTouchActive ==
    [][(last'.op \in HookOps)
       => /\ crashed' = "no"
          /\ \A o \in DOMAIN tiocbs :
                tiocbs'[o] # tiocbs[o] => life[tiocbs[o].vdi_stats] = "ACTIVE"]_vars

C20_PurgeStaysInsideRoot ==
    [][(last'.op \in {"td_metrics_start", "td_metrics_stop"})
       => \A p \in DOMAIN fs :
             ~Above(RootPath, p) => (p \in DOMAIN fs' /\ fs'[p] = fs[p])]_vars

====
